---- MODULE Spec2Model ----
(***************************************************************************)
(* conplot: text-mode charts on a dot-addressable canvas.                  *)
(*                                                                         *)
(* The model covers RGB8 (hex colour parsing) and Chart (construction,     *)
(* data, lineplot, hide_axis, tick formatters, the render pipeline).       *)
(*                                                                         *)
(* f32 values are modelled as exact rationals n/d plus +inf, -inf and NaN. *)
(* The datasets and ranges used are multiples of 0.1 between -10 and 20,   *)
(* so a quotient the scale computes is either exactly on a rounding        *)
(* boundary (and then exact in f32 too) or at least 1/600 away from one,   *)
(* while the f32 error stays below 2^-11: rounding the exact quotient      *)
(* gives the integer the f32 code gives.                                   *)
(*                                                                         *)
(* The canvas is the set of its marked dots; the colour attached to a dot  *)
(* is kept in the record of the calls a render pass makes (out.passes).    *)
(***************************************************************************)
EXTENDS Integers, Sequences, FiniteSets, TLC

(***************************************************************************)
(* f32 arithmetic (IEEE 754 special values, exact finite values)           *)
(***************************************************************************)
F(n, d) == [k |-> "fin", n |-> n, d |-> d]

INFINITY == [k |-> "inf", n |-> 1, d |-> 0]

NEG_INFINITY == [k |-> "inf", n |-> -1, d |-> 0]

NaN == [k |-> "nan", n |-> 0, d |-> 0]

IsNaN(a) == a.k = "nan"

IsFinite(a) == a.k = "fin"

Sgn(n) == IF n > 0 THEN 1 ELSE IF n < 0 THEN -1 ELSE 0

Abs(n) == IF n < 0 THEN -n ELSE n

\* sign of an f32 value: -1, 0 or 1 (NaN has none and is never asked)
FSign(a) == Sgn(a.n)

FNeg(a) == [a EXCEPT !.n = -a.n]

FAdd(a, b) ==
    IF IsNaN(a) \/ IsNaN(b) THEN NaN
    ELSE IF a.k = "inf" /\ b.k = "inf" THEN (IF a.n = b.n THEN a ELSE NaN)
    ELSE IF a.k = "inf" THEN a
    ELSE IF b.k = "inf" THEN b
    ELSE F(a.n * b.d + b.n * a.d, a.d * b.d)

FSub(a, b) == FAdd(a, FNeg(b))

FMul(a, b) ==
    IF IsNaN(a) \/ IsNaN(b) THEN NaN
    ELSE IF a.k = "inf" \/ b.k = "inf"
         THEN (IF FSign(a) * FSign(b) = 0 THEN NaN
               ELSE IF FSign(a) * FSign(b) > 0 THEN INFINITY ELSE NEG_INFINITY)
    ELSE F(a.n * b.n, a.d * b.d)

\* a zero divisor is +0.0 here: it is always a difference x - x
FDiv(a, b) ==
    IF IsNaN(a) \/ IsNaN(b) THEN NaN
    ELSE IF a.k = "inf" /\ b.k = "inf" THEN NaN
    ELSE IF b.k = "inf" THEN F(0, 1)
    ELSE IF a.k = "inf"
         THEN (IF FSign(b) < 0 THEN FNeg(a) ELSE a)
    ELSE IF b.n = 0
         THEN (IF a.n = 0 THEN NaN
               ELSE IF a.n > 0 THEN INFINITY ELSE NEG_INFINITY)
    ELSE F(a.n * b.d * Sgn(b.n), a.d * Abs(b.n))

\* a <= b on f32: false when either side is NaN
FLe(a, b) ==
    IF IsNaN(a) \/ IsNaN(b) THEN FALSE
    ELSE IF a.k = "inf" THEN (a.n < 0 \/ (b.k = "inf" /\ b.n > 0))
    ELSE IF b.k = "inf" THEN b.n > 0
    ELSE a.n * b.d <= b.n * a.d

FEq(a, b) == FLe(a, b) /\ FLe(b, a)

FLt(a, b) == FLe(a, b) /\ ~FLe(b, a)

\* f32::min / f32::max: a NaN operand is ignored
FMin(a, b) == IF IsNaN(a) THEN b ELSE IF IsNaN(b) THEN a ELSE IF FLe(a, b) THEN a ELSE b

FMax(a, b) == IF IsNaN(a) THEN b ELSE IF IsNaN(b) THEN a ELSE IF FLe(b, a) THEN a ELSE b

\* f32::round: to the nearest integer, halves away from zero
FRound(a) ==
    IF ~IsFinite(a) THEN a
    ELSE F(Sgn(a.n) * ((2 * Abs(a.n) + a.d) \div (2 * a.d)), 1)

\* the largest u32; TLC integers are 32-bit signed, so it is represented by the
\* largest of those: only its order against width and height is ever used
U32_MAX == 2147483647

\* `as u32`: truncates toward zero and saturates; NaN becomes 0
AsU32(a) ==
    IF IsNaN(a) THEN 0
    ELSE IF a.k = "inf" THEN (IF a.n > 0 THEN U32_MAX ELSE 0)
    ELSE IF a.n <= 0 THEN 0
    ELSE a.n \div a.d

(***************************************************************************)
(* Scale: the affine map of a source interval onto a target interval       *)
(***************************************************************************)
Scale_new(smin, smax, tmin, tmax) == [smin |-> smin, smax |-> smax, tmin |-> tmin, tmax |-> tmax]

\* target.min + (v - source.min) * (target.max - target.min) / (source.max - source.min)
linear(s, v) ==
    FAdd(s.tmin, FDiv(FMul(FSub(v, s.smin), FSub(s.tmax, s.tmin)), FSub(s.smax, s.smin)))

(***************************************************************************)
(* The canvas backend: a set of marked dots <<x, y>>                       *)
(***************************************************************************)
Canvas_new(w, h) == {}

Max2(a, b) == IF a >= b THEN a ELSE b

Min2(a, b) == IF a <= b THEN a ELSE b

\* the dots line and line_colored mark between two dots: r + 1 samples, r the
\* longer extent (the colour only tags them)
LineDots(x1, y1, x2, y2) ==
    LET xdiff == Max2(x1, x2) - Min2(x1, x2)
        ydiff == Max2(y1, y2) - Min2(y1, y2)
        xdir  == IF x1 <= x2 THEN 1 ELSE -1
        ydir  == IF y1 <= y2 THEN 1 ELSE -1
        r     == Max2(xdiff, ydiff)
    IN  { << x1 + (IF xdiff # 0 THEN ((i * xdiff) \div r) * xdir ELSE 0),
             y1 + (IF ydiff # 0 THEN ((i * ydiff) \div r) * ydir ELSE 0) >> : i \in 0..r }

\* frame(): one text row per 4 dot rows, rows 0..height/4, joined by "\n"
FrameRows(h) == h \div 4 + 1

(***************************************************************************)
(* RGB8                                                                    *)
(***************************************************************************)
RGB8_new(r, g, b) == [r |-> r, g |-> g, b |-> b]

NoColor == [some |-> FALSE, r |-> 0, g |-> 0, b |-> 0]

SomeColor(c) == [some |-> TRUE, r |-> c.r, g |-> c.g, b |-> c.b]

rgb_to_pixelcolor(c) == [kind |-> "TrueColor", r |-> c.r, g |-> c.g, b |-> c.b]

\* the characters hex strings are drawn from: '#', three hex digits, a letter
\* that is no hex digit, and the sign from_str_radix accepts
HexAlphabet == {"#", "0", "B", "F", "G", "+"}

\* char::to_digit(16), -1 for a character that is no hex digit
HexDigit(c) ==
    CASE c = "0" -> 0
      [] c = "B" -> 11
      [] c = "F" -> 15
      [] OTHER -> -1

\* u8::from_str_radix(s, 16) on a two-character slice: a leading '+' is a sign
\* and is skipped; -1 stands for Err
str_to_u8(s) ==
    LET digits == IF s[1] = "+" THEN SubSeq(s, 2, 2) ELSE s
    IN  IF \E i \in 1..Len(digits) : HexDigit(digits[i]) < 0 THEN -1
        ELSE IF Len(digits) = 1 THEN HexDigit(digits[1])
        ELSE 16 * HexDigit(digits[1]) + HexDigit(digits[2])

IsNotHash(c) == c # "#"

HexPanic == [ret |-> "panic", r |-> 0, g |-> 0, b |-> 0]

\* RGB8::new_hex_str(hs): the RGB8 it returns, or HexPanic when it panics
new_hex_str(hs) ==
    IF Len(hs) < 6 \/ Len(hs) > 7
    THEN HexPanic
    ELSE LET stripped == SelectSeq(hs, IsNotHash)
         IN  \* a slice past the end of the string panics
             IF Len(stripped) < 6
             THEN HexPanic
             ELSE LET r == str_to_u8(SubSeq(stripped, 1, 2))
                      g == str_to_u8(SubSeq(stripped, 3, 4))
                      b == str_to_u8(SubSeq(stripped, 5, 6))
                  IN  \* unwrap() of an Err panics
                      IF r < 0 \/ g < 0 \/ b < 0
                      THEN HexPanic
                      ELSE [ret |-> "ok", r |-> r, g |-> g, b |-> b]

(***************************************************************************)
(* Inputs                                                                  *)
(***************************************************************************)
\* the longest hex string tried
MaxHexLen == 7

\* the number of calls made on one Chart when every input is tried
MaxOps == 3

\* the number of calls made on one Chart in the longer runs over fewer inputs
MaxSeqOps == 5

\* the number of calls made on one Chart in the runs over every layer kind
MaxFigureOps == 4

Widths == {31, 32, 40}

Heights == {31, 32}

Shapes == {"Points", "Lines", "Steps", "Bars"}

Colors == {NoColor, SomeColor(RGB8_new(255, 0, 11))}

Example == << <<F(-5, 1), F(3, 1)>>, <<F(33, 10), F(2, 1)>>, <<F(10, 1), F(6, 1)>> >>

Narrow == << <<F(0, 1), F(3, 1)>>, <<F(5, 1), F(4, 1)>> >>

Wide == << <<F(-10, 1), F(0, 1)>>, <<F(0, 1), F(5, 1)>>, <<F(20, 1), F(10, 1)>>, <<F(5, 1), F(3, 1)>> >>

Single == << <<F(2, 1), F(2, 1)>> >>

DataSets == {<< >>, Example, Narrow, Wide, Single}

\* <<xmin, xmax, ymin, ymax>> given to with_range; the second is degenerate
FixedRanges == { <<F(0, 1), F(10, 1), F(0, 1), F(6, 1)>>, <<F(2, 1), F(2, 1), F(2, 1), F(2, 1)>> }

\* a tick formatter is modelled by the length of the labels it returns
TickLens == {16, 17}

(***************************************************************************)
(* Chart                                                                   *)
(***************************************************************************)
VARIABLES
    pc,            \* "start" before construction, "live", "panic" after a panic
    err,           \* the panic message
    width, height,
    xmin, xmax, x_ranging,
    ymin, ymax, y_ranging,
    data_points,
    appearance,
    show_axis,
    xtick, ytick,
    canvas,
    ctor,          \* history: the constructor called and its arguments
    rescaled,      \* history: the points of every dataset a lineplot call saw
    out,           \* history: the last call and what its render pass drew
    nops,          \* history: the number of calls made
    budget,        \* the number of calls the caller makes
    hex_str,       \* the argument of RGB8::new_hex_str
    hex_rgb        \* its result, HexPending before the call

chart == <<width, height, xmin, xmax, x_ranging, ymin, ymax, y_ranging,
           data_points, appearance, show_axis, xtick, ytick, canvas>>

hist == <<ctor, rescaled, out, nops, budget>>

hex == <<hex_str, hex_rgb>>

vars == <<pc, err, chart, hist, hex>>

HexPending == [ret |-> "pending", r |-> 0, g |-> 0, b |-> 0]

NoTick == [some |-> FALSE, len |-> 0]

NoOut(op) == [op |-> op, passes |-> << >>]

ChartInit(calls) ==
    /\ budget = calls
    /\ pc = "start" /\ err = ""
    /\ width = 0 /\ height = 0
    /\ xmin = NaN /\ xmax = NaN /\ x_ranging = "AutoRange"
    /\ ymin = NaN /\ ymax = NaN /\ y_ranging = "AutoRange"
    /\ data_points = << >> /\ appearance = << >>
    /\ show_axis = TRUE /\ xtick = NoTick /\ ytick = NoTick
    /\ canvas = {}
    /\ ctor = [fn |-> "none", w |-> 0, h |-> 0, range |-> << >>]
    /\ rescaled = {} /\ out = NoOut("none") /\ nops = 0

\* mutant: the width check rejects 32 as well
SizeOk_offByOne(w, h) == ~(w <= 32) /\ ~(h < 32)

\* the size check both constructors start with
SizeOk(w, h) == ~(w < 32) /\ ~(h < 32)

\* the fields both constructors set alike; when the size check panics no Chart
\* exists and the fields only record what was asked for
Construct(fn, w, h, range) ==
    /\ pc = "start"
    /\ width' = w /\ height' = h
    /\ ctor' = [fn |-> fn, w |-> w, h |-> h, range |-> range]
    /\ IF SizeOk(w, h)
       THEN /\ pc' = "live" /\ err' = ""
       ELSE /\ pc' = "panic"
            /\ err' = IF w < 32 THEN "width should be more then 32" ELSE "height should be more then 32"
    /\ data_points' = << >> /\ appearance' = << >>
    /\ show_axis' = TRUE /\ xtick' = NoTick /\ ytick' = NoTick
    /\ canvas' = Canvas_new(w, h)
    /\ out' = NoOut(fn)
    /\ UNCHANGED <<rescaled, nops, budget, hex>>

new(w, h) ==
    /\ Construct("new", w, h, << >>)
    /\ xmin' = INFINITY /\ xmax' = NEG_INFINITY /\ x_ranging' = "AutoRange"
    /\ ymin' = INFINITY /\ ymax' = NEG_INFINITY /\ y_ranging' = "AutoRange"

\* mutant: only the y axis is fixed, the x axis stays auto-ranged
with_range_fixedYOnly(w, h, r) ==
    /\ Construct("with_range", w, h, r)
    /\ xmin' = r[1] /\ xmax' = r[2] /\ x_ranging' = "AutoRange"
    /\ ymin' = r[3] /\ ymax' = r[4] /\ y_ranging' = "FixedRange"

with_range(w, h, r) ==
    /\ Construct("with_range", w, h, r)
    /\ xmin' = r[1] /\ xmax' = r[2] /\ x_ranging' = "FixedRange"
    /\ ymin' = r[3] /\ ymax' = r[4] /\ y_ranging' = "FixedRange"

default == new(120, 60)

\* every live call counts against the budget of the run
Call(op) ==
    /\ pc = "live"
    /\ nops < budget
    /\ nops' = nops + 1
    /\ UNCHANGED <<ctor, budget, hex>>

RECURSIVE FoldMin(_, _, _)
\* .iter().map(coordinate c).fold(acc, |m, v| m.min(v))
FoldMin(pts, c, acc) ==
    IF pts = << >> THEN acc ELSE FoldMin(Tail(pts), c, FMin(acc, Head(pts)[c]))

RECURSIVE FoldMax(_, _, _)
FoldMax(pts, c, acc) ==
    IF pts = << >> THEN acc ELSE FoldMax(Tail(pts), c, FMax(acc, Head(pts)[c]))

\* mutant: the x bounds are the extrema of the current dataset alone
rescale_x_dataOnly ==
    << FoldMin(data_points, 1, INFINITY), FoldMax(data_points, 1, NEG_INFINITY) >>

\* rescale_x: the new <<xmin, xmax>>
rescale_x ==
    << FMin(xmin, FoldMin(data_points, 1, INFINITY)),
       FMax(xmax, FoldMax(data_points, 1, NEG_INFINITY)) >>

\* mutant: the y bounds are widened by the x coordinates
rescale_y_readsX ==
    << FMin(ymin, FoldMin(data_points, 1, INFINITY)),
       FMax(ymax, FoldMax(data_points, 1, NEG_INFINITY)) >>

\* rescale_y: the new <<ymin, ymax>>
rescale_y ==
    << FMin(ymin, FoldMin(data_points, 2, INFINITY)),
       FMax(ymax, FoldMax(data_points, 2, NEG_INFINITY)) >>

Range(seq) == { seq[i] : i \in 1..Len(seq) }

data(d) ==
    /\ Call("data")
    /\ data_points' = d
    /\ out' = NoOut("data")
    /\ UNCHANGED <<pc, err, width, height, xmin, xmax, x_ranging, ymin, ymax, y_ranging,
                   appearance, show_axis, xtick, ytick, canvas, rescaled>>

lineplot(shape, color) ==
    /\ Call("lineplot")
    /\ appearance' = Append(appearance, [shape |-> shape, color |-> color])
    /\ IF x_ranging = "AutoRange"
       THEN xmin' = rescale_x[1] /\ xmax' = rescale_x[2]
       ELSE UNCHANGED <<xmin, xmax>>
    /\ IF y_ranging = "AutoRange"
       THEN ymin' = rescale_y[1] /\ ymax' = rescale_y[2]
       ELSE UNCHANGED <<ymin, ymax>>
    /\ rescaled' = rescaled \cup Range(data_points)
    /\ out' = NoOut("lineplot")
    /\ UNCHANGED <<pc, err, width, height, x_ranging, y_ranging,
                   data_points, show_axis, xtick, ytick, canvas>>

hide_axis ==
    /\ Call("hide_axis")
    /\ show_axis' = FALSE
    /\ out' = NoOut("hide_axis")
    /\ UNCHANGED <<pc, err, width, height, xmin, xmax, x_ranging, ymin, ymax, y_ranging,
                   data_points, appearance, xtick, ytick, canvas, rescaled>>

set_xtick(len) ==
    /\ Call("set_xtick")
    /\ xtick' = [some |-> TRUE, len |-> len]
    /\ out' = NoOut("set_xtick")
    /\ UNCHANGED <<pc, err, width, height, xmin, xmax, x_ranging, ymin, ymax, y_ranging,
                   data_points, appearance, show_axis, ytick, canvas, rescaled>>

set_ytick(len) ==
    /\ Call("set_ytick")
    /\ ytick' = [some |-> TRUE, len |-> len]
    /\ out' = NoOut("set_ytick")
    /\ UNCHANGED <<pc, err, width, height, xmin, xmax, x_ranging, ymin, ymax, y_ranging,
                   data_points, appearance, show_axis, xtick, canvas, rescaled>>

(***************************************************************************)
(* The render pipeline                                                     *)
(***************************************************************************)
\* vline: every third dot of column i
vline(cv, i) ==
    IF i <= width THEN cv \cup { <<i, j>> : j \in { k \in 0..height : k % 3 = 0 } } ELSE cv

\* hline: every third dot of row height - j
hline(cv, j) ==
    IF j <= height THEN cv \cup { <<i, height - j>> : i \in { k \in 0..width : k % 3 = 0 } } ELSE cv

borders(cv) == hline(hline(vline(vline(cv, 0), width), 0), height)

x_scale == Scale_new(xmin, xmax, F(0, 1), F(width, 1))

y_scale == Scale_new(ymin, ymax, F(0, 1), F(height, 1))

Zero == F(0, 1)

null_axis(cv) ==
    LET cv1 == IF FLe(xmin, Zero) /\ FLe(Zero, xmax)
               THEN vline(cv, AsU32(linear(x_scale, Zero))) ELSE cv
    IN  IF FLe(ymin, Zero) /\ FLe(Zero, ymax)
        THEN hline(cv1, AsU32(linear(y_scale, Zero))) ELSE cv1

\* the u32 pair <<i, j>> a data point is translated to
Screen(pt) ==
    << AsU32(FRound(linear(x_scale, pt[1]))), AsU32(FRound(linear(y_scale, pt[2]))) >>

\* the filter of figure's filter_map
OnCanvas(ij) == ij[1] <= width /\ ij[2] <= height

\* mutant: no point is filtered out
KeptFrom_all(k) == [ i \in 1..(Len(data_points) - k + 1) |-> k + i - 1 ]

\* the indices of the data points figure keeps, in dataset order
RECURSIVE KeptFrom(_)
KeptFrom(k) ==
    IF k > Len(data_points) THEN << >>
    ELSE IF OnCanvas(Screen(data_points[k])) THEN <<k>> \o KeptFrom(k + 1)
    ELSE KeptFrom(k + 1)

\* `points`: the canvas position of every kept data point
ScreenPoints ==
    LET kept == KeptFrom(1)
    IN  [ m \in 1..Len(kept) |->
            << Screen(data_points[kept[m]])[1], height - Screen(data_points[kept[m]])[2] >> ]

NoPixel == [kind |-> "none", r |-> 0, g |-> 0, b |-> 0]

SetCall(x, y) == [op |-> "set", x1 |-> x, y1 |-> y, x2 |-> x, y2 |-> y, color |-> NoPixel]

\* render_line: the canvas primitive it calls
render_line(x1, y1, x2, y2, color) ==
    IF color.some
    THEN [op |-> "line_colored", x1 |-> x1, y1 |-> y1, x2 |-> x2, y2 |-> y2,
          color |-> rgb_to_pixelcolor(color)]
    ELSE [op |-> "line", x1 |-> x1, y1 |-> y1, x2 |-> x2, y2 |-> y2, color |-> NoPixel]

\* points.windows(2): the number of pairs
Windows(points) == IF Len(points) < 2 THEN 0 ELSE Len(points) - 1

\* mutant: Steps draws the horizontal segment at p1's height (step-before) and
\* Bars drops its second line at p1.x
FigureCalls_stepBefore(shape, color, points) ==
    CASE shape = "Points" ->
           [ m \in 1..Len(points) |-> SetCall(points[m][1], points[m][2]) ]
      [] shape = "Lines" ->
           [ m \in 1..Windows(points) |->
               render_line(points[m][1], points[m][2], points[m + 1][1], points[m + 1][2], color) ]
      [] shape = "Steps" ->
           [ m \in 1..(2 * Windows(points)) |->
               LET p1 == points[(m + 1) \div 2]
                   p2 == points[(m + 1) \div 2 + 1]
               IN  IF m % 2 = 1
                   THEN render_line(p1[1], p1[2], p2[1], p1[2], color)
                   ELSE render_line(p2[1], p1[2], p2[1], p2[2], color) ]
      [] shape = "Bars" ->
           [ m \in 1..(4 * Windows(points)) |->
               LET p1 == points[(m + 3) \div 4]
                   p2 == points[(m + 3) \div 4 + 1]
               IN  CASE m % 4 = 1 -> render_line(p1[1], p2[2], p2[1], p2[2], color)
                     [] m % 4 = 2 -> render_line(p1[1], p1[2], p1[1], p2[2], color)
                     [] m % 4 = 3 -> render_line(p1[1], height, p1[1], p1[2], color)
                     [] OTHER     -> render_line(p1[1], height, p1[1], p2[2], color) ]

\* figure: the canvas calls one layer makes, in order
FigureCalls(shape, color, points) ==
    CASE shape = "Points" ->
           [ m \in 1..Len(points) |-> SetCall(points[m][1], points[m][2]) ]
      [] shape = "Lines" ->
           [ m \in 1..Windows(points) |->
               render_line(points[m][1], points[m][2], points[m + 1][1], points[m + 1][2], color) ]
      [] shape = "Steps" ->
           [ m \in 1..(2 * Windows(points)) |->
               LET p1 == points[(m + 1) \div 2]
                   p2 == points[(m + 1) \div 2 + 1]
               IN  IF m % 2 = 1
                   THEN render_line(p1[1], p2[2], p2[1], p2[2], color)
                   ELSE render_line(p1[1], p1[2], p1[1], p2[2], color) ]
      [] shape = "Bars" ->
           [ m \in 1..(4 * Windows(points)) |->
               LET p1 == points[(m + 3) \div 4]
                   p2 == points[(m + 3) \div 4 + 1]
               IN  CASE m % 4 = 1 -> render_line(p1[1], p2[2], p2[1], p2[2], color)
                     [] m % 4 = 2 -> render_line(p1[1], p1[2], p1[1], p2[2], color)
                     [] m % 4 = 3 -> render_line(p1[1], height, p1[1], p1[2], color)
                     [] OTHER     -> render_line(p2[1], height, p2[1], p2[2], color) ]

figure(shape, color) ==
    [shape |-> shape, color |-> color, kept |-> KeptFrom(1), points |-> ScreenPoints,
     calls |-> FigureCalls(shape, color, ScreenPoints)]

\* the dots one canvas call marks
CallDots(c) ==
    IF c.op = "set" THEN {<<c.x1, c.y1>>} ELSE LineDots(c.x1, c.y1, c.x2, c.y2)

\* figures: one pass per layer, in the order of `appearance`
figures == [ l \in 1..Len(appearance) |-> figure(appearance[l].shape, appearance[l].color) ]

FiguresDots(passes) ==
    UNION { UNION { CallDots(passes[l].calls[m]) : m \in 1..Len(passes[l].calls) } :
            l \in 1..Len(passes) }

\* the number of decimal digits of a natural number
RECURSIVE NumDigits(_)
NumDigits(n) == IF n < 10 THEN 1 ELSE 1 + NumDigits(n \div 10)

\* the character count of format!("{:.1}", value)
DefaultLabelLen(v) ==
    IF IsNaN(v) THEN 3
    ELSE IF v.k = "inf" THEN (IF v.n > 0 THEN 3 ELSE 4)
    ELSE LET tenths == (20 * Abs(v.n) + v.d) \div (2 * v.d)
         IN  (IF v.n < 0 THEN 1 ELSE 0) + NumDigits(tenths \div 10) + 2

\* format_xaxis_tick / format_yaxis_tick: the character count of the label
format_xaxis_tick(v) == IF xtick.some THEN xtick.len ELSE DefaultLabelLen(v)

format_yaxis_tick(v) == IF ytick.some THEN ytick.len ELSE DefaultLabelLen(v)

\* show_num_label: TRUE when the padding width (width / 2 - xmax label length,
\* a usize) can be computed; the frame always has a line break to insert at
show_num_label ==
    FrameRows(height) >= 2 => format_xaxis_tick(xmax) <= width \div 2

\* mutant: every render pass starts from a cleared canvas
Render_cleared(cv) ==
    LET cv1 == IF show_axis THEN null_axis({}) ELSE {}
        passes == figures
    IN  [canvas |-> cv1 \cup FiguresDots(passes), passes |-> passes,
         ok |-> (show_axis => show_num_label)]

\* to_string on canvas cv: the canvas it leaves, the passes it drew, whether
\* it returns the frame
Render(cv) ==
    LET cv1 == IF show_axis THEN null_axis(cv) ELSE cv
        passes == figures
    IN  [canvas |-> cv1 \cup FiguresDots(passes), passes |-> passes,
         ok |-> (show_axis => show_num_label)]

\* the state change of a render pass; a failing width subtraction panics in a
\* debug build and in a release build wraps to a padding no memory holds
Rendered(op, r) ==
    /\ Call(op)
    /\ canvas' = r.canvas
    /\ out' = [op |-> op, passes |-> r.passes]
    /\ IF r.ok
       THEN pc' = "live" /\ err' = ""
       ELSE /\ pc' = "panic"
            /\ \E build \in {"debug", "release"} :
                 err' = IF build = "debug" THEN "attempt to subtract with overflow"
                        ELSE "memory allocation failed"
    /\ UNCHANGED <<width, height, xmin, xmax, x_ranging, ymin, ymax, y_ranging,
                   data_points, appearance, show_axis, xtick, ytick, rescaled>>

\* to_string, and display, which prints what to_string returns
to_string == Rendered("to_string", Render(canvas))

nice == Rendered("nice", Render(borders(canvas)))

(***************************************************************************)
(* Specifications                                                          *)
(***************************************************************************)
HexIdle == hex_str = << >> /\ hex_rgb = HexPending

\* the calls that feed and draw a live Chart
Calls(datasets, shapes, colors) ==
    \/ \E d \in datasets : data(d)
    \/ \E s \in shapes, c \in colors : lineplot(s, c)
    \/ to_string

Extras ==
    \/ hide_axis
    \/ nice

Ticks(lens) ==
    \/ \E k \in lens : set_xtick(k)
    \/ \E k \in lens : set_ytick(k)

\* Spec: every constructor and every input, MaxOps calls
Init == ChartInit(MaxOps) /\ HexIdle

Next ==
    \/ \E w \in Widths, h \in Heights : new(w, h)
    \/ \E w \in Widths, h \in Heights, r \in FixedRanges : with_range(w, h, r)
    \/ default
    \/ Calls(DataSets, Shapes, Colors)
    \/ Extras
    \/ Ticks(TickLens)

Spec == Init /\ [][Next]_vars

\* SpecSeq: longer call sequences on an auto-range and on a fixed-range Chart
SeqRange == <<F(0, 1), F(10, 1), F(0, 1), F(6, 1)>>

InitSeq == ChartInit(MaxSeqOps) /\ HexIdle

NextSeq ==
    \/ new(32, 32)
    \/ with_range(40, 32, SeqRange)
    \/ Calls({Example, Narrow, Wide}, {"Lines", "Points"}, {NoColor})
    \/ Extras

SpecSeq == InitSeq /\ [][NextSeq]_vars

\* SpecFigure: every layer kind, on an auto-range and on a fixed-range Chart
InitFigure == ChartInit(MaxFigureOps) /\ HexIdle

NextFigure ==
    \/ new(32, 32)
    \/ with_range(40, 32, SeqRange)
    \/ Calls({Example, Wide}, Shapes, Colors)

SpecFigure == InitFigure /\ [][NextFigure]_vars

\* SpecHex: RGB8::new_hex_str on every string of at most MaxHexLen characters
HexStrings == UNION { [1..n -> HexAlphabet] : n \in 0..MaxHexLen }

InitHex == ChartInit(0) /\ hex_str \in HexStrings /\ hex_rgb = HexPending

ParseHex ==
    /\ hex_rgb = HexPending
    /\ hex_rgb' = new_hex_str(hex_str)
    /\ UNCHANGED <<pc, err, chart, hist, hex_str>>

NextHex == ParseHex

SpecHex == InitHex /\ [][NextHex]_vars

(***************************************************************************)
(* Properties                                                              *)
(***************************************************************************)
\* a constructor panicked on the size check
ConfigError == pc = "panic" /\ out.op \in {"new", "with_range"}

\* a Chart was constructed
Constructed == pc # "start" /\ ~ConfigError

RenderOps == {"to_string", "nice"}

\* C8: a constructor fails exactly when width < 32 or height < 32, and the
\* width and height of a constructed Chart stay the constructor's arguments,
\* so both are at least 32 in every state of a constructed Chart.
C8_SizeChecked ==
    pc # "start" =>
        /\ ConfigError <=> (ctor.w < 32 \/ ctor.h < 32)
        /\ width = ctor.w /\ height = ctor.h
        /\ Constructed => width >= 32 /\ height >= 32

C8_Witness ==
    /\ pc = "live" /\ ctor.w = 32 /\ ctor.h = 32
    /\ out.op = "to_string" /\ nops = budget

\* C1: a Chart built by with_range keeps the four bounds it was given, whatever
\* data, lineplot, hide_axis and render calls follow.
C1_FixedBoundsKept ==
    (Constructed /\ ctor.fn = "with_range") =>
        /\ xmin = ctor.range[1] /\ xmax = ctor.range[2]
        /\ ymin = ctor.range[3] /\ ymax = ctor.range[4]

C1_Witness ==
    /\ pc = "live" /\ ctor.fn = "with_range"
    /\ data_points = Wide /\ Len(appearance) = 1 /\ rescaled = Range(Wide)
    /\ out.op \in RenderOps

\* C5: every render of a constructed Chart returns a frame (it never panics).
C5_RenderTotal == out.op \in RenderOps => pc = "live"

\* the claim's test on one scaled coordinate: non-finite, below the canvas, or
\* rounded beyond the limit
OffCanvas(sv, limit) ==
    \/ ~IsFinite(sv)
    \/ FLt(FRound(sv), Zero)
    \/ FLt(F(limit, 1), FRound(sv))

\* C4: a render pass leaves out every data point whose scaled x or y is
\* non-finite or outside the canvas range, and keeps a point whose rounded
\* scaled coordinates are within 0..width and 0..height, drawing it at
\* (i, height - j).
C4_OffCanvasDropped ==
    (out.op \in RenderOps) =>
        \A l \in 1..Len(out.passes) : \A k \in 1..Len(data_points) :
            LET sx == linear(x_scale, data_points[k][1])
                sy == linear(y_scale, data_points[k][2])
                in_pass == \E m \in 1..Len(out.passes[l].kept) : out.passes[l].kept[m] = k
            IN  /\ (OffCanvas(sx, width) \/ OffCanvas(sy, height)) => ~in_pass
                /\ ~(OffCanvas(sx, width) \/ OffCanvas(sy, height)) =>
                     \E m \in 1..Len(out.passes[l].kept) :
                        /\ out.passes[l].kept[m] = k
                        /\ out.passes[l].points[m] = <<FRound(sx).n, height - FRound(sy).n>>

\* C2: on an auto-ranged axis every step of a constructed Chart leaves the
\* minimum where it was or lower and the maximum where it was or higher.
C2_AutoOnlyWidens ==
    [][ (pc = "live") =>
          /\ (x_ranging = "AutoRange") => (FLe(xmin', xmin) /\ FLe(xmax, xmax'))
          /\ (y_ranging = "AutoRange") => (FLe(ymin', ymin) /\ FLe(ymax, ymax')) ]_vars

\* a lineplot over Narrow after one over Wide: the bounds are still Wide's
C2_Witness ==
    /\ pc = "live" /\ x_ranging = "AutoRange" /\ y_ranging = "AutoRange"
    /\ out.op = "lineplot" /\ data_points = Narrow /\ Range(Wide) \subseteq rescaled
    /\ xmin = F(-10, 1) /\ xmax = F(20, 1) /\ ymin = F(0, 1) /\ ymax = F(10, 1)

\* the least and the greatest of a set of f32 values
SetMin(S) == CHOOSE m \in S : \A v \in S : FLe(m, v)

SetMax(S) == CHOOSE m \in S : \A v \in S : FLe(v, m)

\* C3: the bounds of an auto-range Chart are the extrema of the sentinels and
\* of the coordinates of every dataset that was current at a lineplot call; the
\* dataset of the example, once plotted, gives -5, 10, 2, 6.
C3_AutoBoundsAreExtrema ==
    (Constructed /\ x_ranging = "AutoRange" /\ y_ranging = "AutoRange") =>
        /\ FEq(xmin, SetMin({INFINITY} \cup { p[1] : p \in rescaled }))
        /\ FEq(xmax, SetMax({NEG_INFINITY} \cup { p[1] : p \in rescaled }))
        /\ FEq(ymin, SetMin({INFINITY} \cup { p[2] : p \in rescaled }))
        /\ FEq(ymax, SetMax({NEG_INFINITY} \cup { p[2] : p \in rescaled }))
        /\ (rescaled = Range(Example)) =>
              (xmin = F(-5, 1) /\ xmax = F(10, 1) /\ ymin = F(2, 1) /\ ymax = F(6, 1))
        /\ (appearance = << >>) =>
              (xmin = INFINITY /\ xmax = NEG_INFINITY /\ ymin = INFINITY /\ ymax = NEG_INFINITY)

\* the example plotted once, then a wider dataset set and not yet plotted
C3_Witness ==
    /\ pc = "live" /\ x_ranging = "AutoRange"
    /\ rescaled = Range(Example) /\ Len(appearance) = 1
    /\ out.op = "data" /\ data_points = Wide
    /\ xmin = F(-5, 1) /\ xmax = F(10, 1) /\ ymin = F(2, 1) /\ ymax = F(6, 1)

\* C6: a render pass changes the canvas only, and no step of a constructed
\* Chart removes a dot from the canvas.
C6_RenderOnlyAddsDots ==
    [][ (pc = "live") =>
          /\ canvas \subseteq canvas'
          /\ (out'.op \in RenderOps /\ nops' # nops) =>
                UNCHANGED <<width, height, xmin, xmax, x_ranging, ymin, ymax, y_ranging,
                            data_points, appearance, show_axis, xtick, ytick>> ]_vars

\* a later frame of a fixed-range Chart showing dots that neither the borders,
\* the axes nor the passes over the current dataset draw: an earlier dataset's
C6_Witness ==
    /\ pc = "live" /\ ctor.fn = "with_range" /\ out.op = "to_string"
    /\ FiguresDots(out.passes) # {}
    /\ canvas \ Render(borders({})).canvas # {}

\* the data points a render pass keeps, as the set of their indices
IncludedSet == { k \in 1..Len(data_points) : OnCanvas(Screen(data_points[k])) }

\* the canvas position of data point k
Position(k) == << Screen(data_points[k])[1], height - Screen(data_points[k])[2] >>

\* the m-th least member of a set of indices
Nth(S, m) == CHOOSE a \in S : Cardinality({ c \in S : c <= a }) = m

IsSegment(c, from, to) ==
    /\ c.op \in {"line", "line_colored"}
    /\ <<c.x1, c.y1>> = from /\ <<c.x2, c.y2>> = to

Segment(x1, y1, x2, y2, color) ==
    [op |-> IF color.some THEN "line_colored" ELSE "line",
     x1 |-> x1, y1 |-> y1, x2 |-> x2, y2 |-> y2,
     color |-> IF color.some
               THEN [kind |-> "TrueColor", r |-> color.r, g |-> color.g, b |-> color.b]
               ELSE NoPixel]

\* C10: the passes follow the layers in insertion order; over every pair
\* (p1, p2) of consecutive included points Steps draws the horizontal segment
\* at p2's height and then the vertical one at p1.x, Bars draws these and the
\* drop-lines from the bottom row to p1 and to p2, Points marks each point.
C10_ShapeGeometry ==
    (out.op \in RenderOps) =>
        /\ Len(out.passes) = Len(appearance)
        /\ \A l \in 1..Len(out.passes) :
             LET pass == out.passes[l]
                 P == pass.points
                 col == pass.color
                 pairs == IF Len(P) = 0 THEN 0 ELSE Len(P) - 1
             IN  /\ pass.shape = appearance[l].shape /\ col = appearance[l].color
                 /\ P = [ m \in 1..Cardinality(IncludedSet) |-> Position(Nth(IncludedSet, m)) ]
                 /\ (pass.shape = "Points") =>
                       /\ Len(pass.calls) = Len(P)
                       /\ \A m \in 1..Len(P) :
                            pass.calls[m].op = "set"
                            /\ <<pass.calls[m].x1, pass.calls[m].y1>> = P[m]
                 /\ (pass.shape = "Steps") =>
                       /\ Len(pass.calls) = 2 * pairs
                       /\ \A k \in 1..pairs :
                            /\ pass.calls[2 * k - 1] =
                                 Segment(P[k][1], P[k + 1][2], P[k + 1][1], P[k + 1][2], col)
                            /\ pass.calls[2 * k] =
                                 Segment(P[k][1], P[k][2], P[k][1], P[k + 1][2], col)
                 /\ (pass.shape = "Bars") =>
                       /\ Len(pass.calls) = 4 * pairs
                       /\ \A k \in 1..pairs :
                            /\ pass.calls[4 * k - 3] =
                                 Segment(P[k][1], P[k + 1][2], P[k + 1][1], P[k + 1][2], col)
                            /\ pass.calls[4 * k - 2] =
                                 Segment(P[k][1], P[k][2], P[k][1], P[k + 1][2], col)
                            /\ pass.calls[4 * k - 1] =
                                 Segment(P[k][1], height, P[k][1], P[k][2], col)
                            /\ pass.calls[4 * k] =
                                 Segment(P[k + 1][1], height, P[k + 1][1], P[k + 1][2], col)

\* an uncoloured Steps layer under a coloured Bars layer, both drawing
C10_Witness ==
    /\ pc = "live" /\ out.op = "to_string" /\ Len(out.passes) = 2
    /\ out.passes[1].shape = "Steps" /\ ~out.passes[1].color.some
    /\ out.passes[2].shape = "Bars" /\ out.passes[2].color.some
    /\ Len(out.passes[1].calls) = 4 /\ Len(out.passes[2].calls) = 8

\* the string the claim accepts: after an optional leading '#', exactly six
\* hexadecimal characters
WellFormedHex(hs) ==
    LET rest == IF hs # << >> /\ Head(hs) = "#" THEN Tail(hs) ELSE hs
    IN  Len(rest) = 6 /\ \A i \in 1..6 : HexDigit(rest[i]) >= 0

\* C7: new_hex_str succeeds exactly on the well-formed strings, and fails on
\* every other one.
C7_HexExact ==
    (hex_rgb # HexPending) => ((hex_rgb.ret = "ok") <=> WellFormedHex(hex_str))

====
